---------------------------- MODULE Spec2Model ----------------------------
(***************************************************************************)
(* Model of the evaluation part of train.py (main): the class registry     *)
(* (class_map / classes), the holdout evaluation loop that builds one row  *)
(* per tile, and the heatmap decoder the loop calls (extract_predictions,  *)
(* classes2name), whose bodies live in utils.py and are modelled from the  *)
(* design document (sections 4.2, 4.3, 6 and 7).                            *)
(*                                                                         *)
(* Numbers: a confidence c in [0,1] is held in tenths (0.9 is 9), a colour *)
(* component likewise (0.6 is 6), a radius r/TILE_SZ as the pair           *)
(* <<r, TILE_SZ>>, and a centroid coordinate as the pair <<sum, count>>.   *)
(* Python's 0-based indices are kept as values (idx, classIndex, index);   *)
(* TLA+ sequences are 1-based, so position i of a Python list is element   *)
(* i + 1 of the sequence that models it.                                   *)
(***************************************************************************)
EXTENDS Integers, Sequences, FiniteSets, TLC

VARIABLES
    pc,            \* position of main(): "start", "ready", "loop", "timed", "cleaned", "done", "aborted"
    classes,       \* train.py:137  sorted(set(class_map.values()))
    dls_c,         \* train.py:145  dls.c, the number of model output channels
    lbls,          \* train.py:190  ground-truth heatmaps of the holdout set
    preds,         \* train.py:189  predicted heatmaps of the holdout set
    holdout_lbls,  \* train.py:184  per-tile label records; ['External ID'] is the file name
    idx,           \* train.py:194  the loop variable; Unbound until the first iteration binds it
    ho_results,    \* train.py:193  the rows collected so far
    cleaned,       \* train.py:211  cleanup() has run
    logged,        \* train.py:213  the tile count of the timing line, NoLog until it is written
    error,         \* the exception that ended main(), NoError while none was raised
    conn,          \* connectivity of region extraction (4 or 8), fixed for a run
    hm,            \* decoder run: the heatmap handed to decode
    thr,           \* decoder run: scoreThreshold, in tenths
    minA,          \* decoder run: minAreaPixels
    dpc,           \* decoder run: "idle", "input", "decoded", "raised"
    regs,          \* decoder run: per channel, the regions labelled before the area filter
    dets,          \* decoder run: the detections returned
    lowThr,        \* decoder run: the threshold of the earlier call, once a second call raised it
    lowRegs,       \* decoder run: the regions the earlier call labelled
    lowDets        \* decoder run: the detections the earlier call returned

vars == <<pc, classes, dls_c, lbls, preds, holdout_lbls, idx, ho_results,
          cleaned, logged, error, conn, hm, thr, minA, dpc, regs, dets,
          lowThr, lowRegs, lowDets>>

harnessVars == <<pc, classes, dls_c, lbls, preds, holdout_lbls, idx, ho_results,
                 cleaned, logged, error>>

decoderVars == <<hm, thr, minA, dpc, regs, dets, lowThr, lowRegs, lowDets>>

-----------------------------------------------------------------------------
(* Bounds of the model *)

MaxTiles == 2

MaxPixels == 6

-----------------------------------------------------------------------------
(* Program constants *)

TILE_SZ == 1024

min_area == 4

\* score_thresh=0.1, in tenths
score_thresh == 1

\* The value that stands for "idx is bound to nothing yet".
Unbound == -1

\* The value that stands for "no timing line was written".
NoLog == -1

NoName == "NoName"

NoError == [kind |-> "none", fname |-> NoName]

Connectivities == {4, 8}

-----------------------------------------------------------------------------
(* Class registry, train.py:121-137 *)

Eosinophil == <<10, 6, 0>>

Lymphocyte == <<0, 10, 0>>

MacroMono == <<10, 0, 10>>

Neutrophil == <<0, 10, 10>>

RawLabels == {"Eosinophil", "Lymphocyte", "Macrophage", "Monocyte", "Neutrophil"}

\* A bug the registry could have: the synonym Monocyte registered under an index of its own.
class_map_split ==
    [l \in RawLabels |->
        CASE l = "Eosinophil" -> <<0, "Eosinophil", Eosinophil, <<61, TILE_SZ>>>>
          [] l = "Lymphocyte" -> <<1, "Lymphocyte", Lymphocyte, <<30, TILE_SZ>>>>
          [] l = "Macrophage" -> <<2, "Macro+Mono", MacroMono, <<76, TILE_SZ>>>>
          [] l = "Monocyte"   -> <<3, "Macro+Mono", MacroMono, <<76, TILE_SZ>>>>
          [] l = "Neutrophil" -> <<4, "Neutrophil", Neutrophil, <<52, TILE_SZ>>>>]

\* LBName: (idx, display, color, radius)
class_map ==
    [l \in RawLabels |->
        CASE l = "Eosinophil" -> <<0, "Eosinophil", Eosinophil, <<61, TILE_SZ>>>>
          [] l = "Lymphocyte" -> <<1, "Lymphocyte", Lymphocyte, <<30, TILE_SZ>>>>
          [] l = "Macrophage" -> <<2, "Macro+Mono", MacroMono, <<76, TILE_SZ>>>>
          [] l = "Monocyte"   -> <<2, "Macro+Mono", MacroMono, <<76, TILE_SZ>>>>
          [] l = "Neutrophil" -> <<3, "Neutrophil", Neutrophil, <<52, TILE_SZ>>>>]

\* The code points of a display name: Python orders strings by code point.
CodePoints(s) ==
    CASE s = "Eosinophil" -> <<69, 111, 115, 105, 110, 111, 112, 104, 105, 108>>
      [] s = "Lymphocyte" -> <<76, 121, 109, 112, 104, 111, 99, 121, 116, 101>>
      [] s = "Macro+Mono" -> <<77, 97, 99, 114, 111, 43, 77, 111, 110, 111>>
      [] s = "Neutrophil" -> <<78, 101, 117, 116, 114, 111, 112, 104, 105, 108>>

\* Lexicographic order of two sequences of integers (Python's list/tuple/str order).
RECURSIVE LexLess(_, _)
LexLess(a, b) ==
    IF b = <<>> THEN FALSE
    ELSE IF a = <<>> THEN TRUE
    ELSE IF a[1] # b[1] THEN a[1] < b[1]
    ELSE LexLess(Tail(a), Tail(b))

\* r1/d1 < r2/d2 for positive denominators
FracLess(f, g) == f[1] * g[2] < g[1] * f[2]

\* Python's order of two (idx, display, color, radius) tuples: field by field.
TupleLess(a, b) ==
    IF a[1] # b[1] THEN a[1] < b[1]
    ELSE IF a[2] # b[2] THEN LexLess(CodePoints(a[2]), CodePoints(b[2]))
    ELSE IF a[3] # b[3] THEN LexLess(a[3], b[3])
    ELSE FracLess(a[4], b[4])

\* A bug sorted() could have: descending order.
RECURSIVE SortedDescending(_)
SortedDescending(S) ==
    IF S = {} THEN <<>>
    ELSE LET m == CHOOSE x \in S : \A y \in S \ {x} : TupleLess(y, x)
         IN  <<m>> \o SortedDescending(S \ {m})

\* sorted(S) for a set S of registry tuples
RECURSIVE Sorted(_)
Sorted(S) ==
    IF S = {} THEN <<>>
    ELSE LET m == CHOOSE x \in S : \A y \in S \ {x} : TupleLess(x, y)
         IN  <<m>> \o Sorted(S \ {m})

\* set(class_map.values())
ClassMapValues == {class_map[l] : l \in RawLabels}

-----------------------------------------------------------------------------
(* Heatmap decoder (utils.extract_predictions), design document section 4.2 *)
(* A heatmap is a sequence of channels, a channel a sequence of rows, a row *)
(* a sequence of confidences: hm[c][y][x].                                  *)

Height(ch) == Len(ch)

Width(ch) == IF Len(ch) = 0 THEN 0 ELSE Len(ch[1])

Pixels(ch) == (1 .. Height(ch)) \X (1 .. Width(ch))

\* A bug the threshold could have: the comparison turned round.
ActiveFlipped(ch, t) == {p \in Pixels(ch) : ch[p[1]][p[2]] <= t}

\* Step 1: every pixel with confidence >= scoreThreshold is active.
Active(ch, t) == {p \in Pixels(ch) : ch[p[1]][p[2]] >= t}

Abs(n) == IF n < 0 THEN -n ELSE n

\* Two distinct pixels are neighbours: edge-adjacent (4) or edge-or-corner-adjacent (8).
Adjacent(p, q, c) ==
    LET dy == Abs(p[1] - q[1])
        dx == Abs(p[2] - q[2])
    IN  IF c = 4 THEN dy + dx = 1
        ELSE p # q /\ dy <= 1 /\ dx <= 1

\* The region grown from seed set R inside the active set A.
RECURSIVE Flood(_, _, _)
Flood(R, A, c) ==
    LET N == {q \in A \ R : \E p \in R : Adjacent(p, q, c)}
    IN  IF N = {} THEN R ELSE Flood(R \cup N, A, c)

\* The first pixel of a non-empty set in raster order (row by row, left to right).
FirstPixel(S) ==
    CHOOSE p \in S : \A q \in S : p[1] < q[1] \/ (p[1] = q[1] /\ p[2] <= q[2])

\* Step 2: the maximal connected regions of A, in discovery (raster) order.
RECURSIVE LabelRegions(_, _)
LabelRegions(A, c) ==
    IF A = {} THEN <<>>
    ELSE LET R == Flood({FirstPixel(A)}, A, c)
         IN  <<R>> \o LabelRegions(A \ R, c)

\* Bugs the area filter could have: strict comparison; comparison turned round.
KeepsRegionStrict(R, m) == Cardinality(R) > m

KeepsRegionFlipped(R, m) == Cardinality(R) <= m

\* Step 3: a region survives unless its pixel count is < minAreaPixels.
KeepsRegion(R, m) == Cardinality(R) >= m

RECURSIVE SumOver(_, _)
SumOver(S, k) ==
    IF S = {} THEN 0
    ELSE LET p == CHOOSE q \in S : TRUE
         IN  p[k] + SumOver(S \ {p}, k)

MaxConfidence(ch, R) ==
    CHOOSE v \in {ch[p[1]][p[2]] : p \in R} : \A p \in R : ch[p[1]][p[2]] <= v

\* Steps 4 and 5: the detection of region R of channel ch, whose 0-based index is c.
\* x and y are the means of the members' 0-based coordinates, as <<sum, count>>.
DetectionOf(ch, c, R) ==
    [classIndex |-> c,
     x          |-> <<SumOver(R, 2) - Cardinality(R), Cardinality(R)>>,
     y          |-> <<SumOver(R, 1) - Cardinality(R), Cardinality(R)>>,
     confidence |-> MaxConfidence(ch, R)]

RECURSIVE MapDetections(_, _, _, _)
MapDetections(ch, c, rs, m) ==
    IF rs = <<>> THEN <<>>
    ELSE IF KeepsRegion(rs[1], m)
         THEN <<DetectionOf(ch, c, rs[1])>> \o MapDetections(ch, c, Tail(rs), m)
         ELSE MapDetections(ch, c, Tail(rs), m)

\* The regions of every channel before the area filter.
RegionsOf(h, t, c) == [k \in 1 .. Len(h) |-> LabelRegions(Active(h[k], t), c)]

\* decode(heatmap, scoreThreshold, minAreaPixels): channel index ascending,
\* then region discovery order.
RECURSIVE DecodeFrom(_, _, _, _, _)
DecodeFrom(h, k, t, m, c) ==
    IF k > Len(h) THEN <<>>
    ELSE MapDetections(h[k], k - 1, LabelRegions(Active(h[k], t), c), m)
            \o DecodeFrom(h, k + 1, t, m, c)

Decode(h, t, m, c) == DecodeFrom(h, 1, t, m, c)

-----------------------------------------------------------------------------
(* Decoder runs: decode applied to bounded inputs, once, then once more at  *)
(* a raised threshold.                                                      *)

Vals == {0, 5, 9}

Thresholds == {0, 5, 9}

MinAreas == {0, 2, 4, 5}

\* The shapes <<height, width>> of at most MaxPixels pixels, no higher than wide.
Shapes ==
    {s \in (1 .. MaxPixels) \X (1 .. MaxPixels) : s[1] <= s[2] /\ s[1] * s[2] <= MaxPixels}

ChannelsOfShape(s) == [1 .. s[1] -> [1 .. s[2] -> Vals]]

\* 0.9 becomes 0.0, 0.5 becomes 0.4, 0.0 becomes 0.9
Complement(ch) == [y \in 1 .. Height(ch) |-> [x \in 1 .. Width(ch) |-> 9 - ch[y][x]]]

\* Two-channel heatmaps whose first channel is any pattern of the shape.
GenericHeatmaps == UNION {{<<ch, Complement(ch)>> : ch \in ChannelsOfShape(s)} : s \in Shapes}

\* The 4x4 scenario of the design document: channel 0 all zero, channel 1 a
\* 2x2 block of 0.9 whose top-left corner is at row r, column c (0-based).
BlockChannel(r, c) ==
    [y \in 1 .. 4 |-> [x \in 1 .. 4 |->
        IF y - 1 \in {r, r + 1} /\ x - 1 \in {c, c + 1} THEN 9 ELSE 0]]

ZeroChannel4 == [y \in 1 .. 4 |-> [x \in 1 .. 4 |-> 0]]

ScenarioHeatmaps == {<<ZeroChannel4, BlockChannel(r, c)>> : r \in 0 .. 2, c \in 0 .. 2}

DecodeInit ==
    /\ pc = "idle"
    /\ classes = <<>>
    /\ dls_c = 0
    /\ lbls = <<>>
    /\ preds = <<>>
    /\ holdout_lbls = <<>>
    /\ idx = Unbound
    /\ ho_results = <<>>
    /\ cleaned = FALSE
    /\ logged = NoLog
    /\ error = NoError
    /\ conn \in Connectivities
    /\ \/ hm \in GenericHeatmaps /\ thr \in Thresholds
       \/ hm \in ScenarioHeatmaps /\ thr \in Thresholds \ {0}
    /\ minA \in MinAreas
    /\ dpc = "input"
    /\ regs = <<>>
    /\ dets = <<>>
    /\ lowThr = thr
    /\ lowRegs = <<>>
    /\ lowDets = <<>>

\* decode(hm, thr, minA)
DecodeCall ==
    /\ dpc = "input"
    /\ regs' = RegionsOf(hm, thr, conn)
    /\ dets' = Decode(hm, thr, minA, conn)
    /\ dpc' = "decoded"
    /\ UNCHANGED <<hm, thr, minA, conn, lowThr, lowRegs, lowDets>>
    /\ UNCHANGED harnessVars

\* decode(hm, t2, minA) for a threshold t2 above the one of the first call
DecodeRaised ==
    /\ dpc = "decoded"
    /\ \E t2 \in Thresholds :
          /\ t2 > thr
          /\ thr' = t2
          /\ regs' = RegionsOf(hm, t2, conn)
          /\ dets' = Decode(hm, t2, minA, conn)
    /\ lowThr' = thr
    /\ lowRegs' = regs
    /\ lowDets' = dets
    /\ dpc' = "raised"
    /\ UNCHANGED <<hm, minA, conn>>
    /\ UNCHANGED harnessVars

DecodeNext == DecodeCall \/ DecodeRaised

SpecDecode == DecodeInit /\ [][DecodeNext]_vars

-----------------------------------------------------------------------------
(* Row building, train.py:195-206, and the helpers of utils.py it calls *)

\* extract_predictions(lbl, pred, score_thresh, min_area): returns
\* (pred_points, lbl_points), each the decode of the heatmap it is named after.
extract_predictions(lbl, pred, t, m, c) == <<Decode(pred, t, m, c), Decode(lbl, t, m, c)>>

\* classes2name(points, classes): the display name at list position classIndex,
\* one per detection, in the detections' order.
classes2name(points, cls) == [i \in 1 .. Len(points) |-> cls[points[i].classIndex + 1][2]]

\* ShapeMismatchError: a heatmap whose channel count is not the number of classes.
ShapeMismatch(lbl, pred, cls) == Len(lbl) # Len(cls) \/ Len(pred) # Len(cls)

\* A bug the row could have: the two name lists taken from the other heatmap.
BuildRowSwapped(lbl, pred, label, cls, c) ==
    LET points      == extract_predictions(lbl, pred, score_thresh, min_area, c)
        pred_points == points[1]
        lbl_points  == points[2]
        target      == classes2name(pred_points, cls)
        prediction  == classes2name(lbl_points, cls)
        fname       == label["External ID"]
    IN  Append(target \o prediction, fname)

\* train.py:197-205: row = target + prediction; row.append(fname)
BuildRow(lbl, pred, label, cls, c) ==
    LET points      == extract_predictions(lbl, pred, score_thresh, min_area, c)
        pred_points == points[1]
        lbl_points  == points[2]
        target      == classes2name(lbl_points, cls)
        prediction  == classes2name(pred_points, cls)
        fname       == label["External ID"]
    IN  Append(target \o prediction, fname)

\* A bug the collection could have: the new row put in front.
PrependRow(rows, row) == <<row>> \o rows

\* train.py:206: ho_results.append(row)
AppendRow(rows, row) == Append(rows, row)

-----------------------------------------------------------------------------
(* The holdout set: heatmaps of 2x2 tiles, four channels unless malformed *)

Zero2 == <<<<0, 0>>, <<0, 0>>>>

Full2 == <<<<9, 9>>, <<9, 9>>>>

\* three active pixels: below min_area
Part2 == <<<<9, 9>>, <<9, 0>>>>

HeatmapA == <<Full2, Zero2, Zero2, Zero2>>

HeatmapB == <<Zero2, Full2, Zero2, Zero2>>

HeatmapC == <<Part2, Zero2, Full2, Full2>>

HeatmapBad == <<Full2, Zero2, Zero2>>

HeatmapPool == {HeatmapA, HeatmapB, HeatmapC, HeatmapBad}

FileNames == {"tile_a.png", "tile_b.png"}

LabelRecords == {("External ID" :> f) : f \in FileNames}

-----------------------------------------------------------------------------
(* main(), train.py:121-213 *)

Init ==
    /\ pc = "start"
    /\ classes = <<>>
    /\ dls_c = 0
    /\ lbls = <<>>
    /\ preds = <<>>
    /\ holdout_lbls = <<>>
    /\ idx = Unbound
    /\ ho_results = <<>>
    /\ cleaned = FALSE
    /\ logged = NoLog
    /\ error = NoError
    /\ conn \in Connectivities
    /\ hm = <<>>
    /\ thr = 0
    /\ minA = 0
    /\ dpc = "idle"
    /\ regs = <<>>
    /\ dets = <<>>
    /\ lowThr = 0
    /\ lowRegs = <<>>
    /\ lowDets = <<>>

\* train.py:128-145: the registry, the class list, the channel count
BuildRegistry ==
    /\ pc = "start"
    /\ classes' = Sorted(ClassMapValues)
    /\ dls_c' = Len(classes')
    /\ pc' = "ready"
    /\ UNCHANGED <<lbls, preds, holdout_lbls, idx, ho_results, cleaned, logged, error>>
    /\ UNCHANGED conn
    /\ UNCHANGED decoderVars

\* train.py:183-193: the holdout set is loaded and predicted, the result list is empty
StartEval ==
    /\ pc = "ready"
    /\ \E n \in 0 .. MaxTiles :
          /\ lbls' \in [1 .. n -> HeatmapPool]
          /\ preds' \in [1 .. n -> HeatmapPool]
          /\ holdout_lbls' \in [1 .. n -> LabelRecords]
    /\ ho_results' = <<>>
    /\ pc' = "loop"
    /\ UNCHANGED <<classes, dls_c, idx, cleaned, logged, error>>
    /\ UNCHANGED conn
    /\ UNCHANGED decoderVars

\* The index the for statement binds next: range(len(holdout_lbls[:])) counts from 0.
NextIdx == IF idx = Unbound THEN 0 ELSE idx + 1

\* A bug the loop could have: a tile that fails is skipped and the loop goes on.
LoopIterSkipping ==
    /\ pc = "loop"
    /\ NextIdx < Len(holdout_lbls)
    /\ idx' = NextIdx
    /\ LET i == NextIdx + 1
       IN  IF ShapeMismatch(lbls[i], preds[i], classes)
           THEN UNCHANGED <<ho_results, pc, error>>
           ELSE /\ ho_results' = AppendRow(ho_results,
                                    BuildRow(lbls[i], preds[i], holdout_lbls[i], classes, conn))
                /\ UNCHANGED <<pc, error>>
    /\ UNCHANGED <<classes, dls_c, lbls, preds, holdout_lbls, cleaned, logged>>
    /\ UNCHANGED conn
    /\ UNCHANGED decoderVars

\* train.py:194-206: one iteration. An exception raised by extract_predictions
\* (line 197) is caught nowhere in main: it ends the process, before line 202
\* has read the tile's file name.
LoopIter ==
    /\ pc = "loop"
    /\ NextIdx < Len(holdout_lbls)
    /\ idx' = NextIdx
    /\ LET i == NextIdx + 1
       IN  IF ShapeMismatch(lbls[i], preds[i], classes)
           THEN /\ pc' = "aborted"
                /\ error' = [kind |-> "ShapeMismatchError", fname |-> NoName]
                /\ UNCHANGED ho_results
           ELSE /\ ho_results' = AppendRow(ho_results,
                                    BuildRow(lbls[i], preds[i], holdout_lbls[i], classes, conn))
                /\ UNCHANGED <<pc, error>>
    /\ UNCHANGED <<classes, dls_c, lbls, preds, holdout_lbls, cleaned, logged>>
    /\ UNCHANGED conn
    /\ UNCHANGED decoderVars

\* train.py:209: the range is exhausted, end = time.time()
LoopExit ==
    /\ pc = "loop"
    /\ NextIdx >= Len(holdout_lbls)
    /\ pc' = "timed"
    /\ UNCHANGED <<classes, dls_c, lbls, preds, holdout_lbls, idx, ho_results,
                   cleaned, logged, error>>
    /\ UNCHANGED conn
    /\ UNCHANGED decoderVars

\* train.py:211: cleanup()
Cleanup ==
    /\ pc = "timed"
    /\ cleaned' = TRUE
    /\ pc' = "cleaned"
    /\ UNCHANGED <<classes, dls_c, lbls, preds, holdout_lbls, idx, ho_results,
                   logged, error>>
    /\ UNCHANGED conn
    /\ UNCHANGED decoderVars

\* train.py:213: the timing line reports idx+1 tiles; idx is unbound when the
\* loop body never ran, and reading it raises UnboundLocalError.
LogTime ==
    /\ pc = "cleaned"
    /\ IF idx = Unbound
       THEN /\ pc' = "aborted"
            /\ error' = [kind |-> "UnboundLocalError", fname |-> NoName]
            /\ UNCHANGED logged
       ELSE /\ logged' = idx + 1
            /\ pc' = "done"
            /\ UNCHANGED error
    /\ UNCHANGED <<classes, dls_c, lbls, preds, holdout_lbls, idx, ho_results, cleaned>>
    /\ UNCHANGED conn
    /\ UNCHANGED decoderVars

Next ==
    \/ BuildRegistry
    \/ StartEval
    \/ LoopIter
    \/ LoopExit
    \/ Cleanup
    \/ LogTime

Spec == Init /\ [][Next]_vars

-----------------------------------------------------------------------------
(* Properties of the evaluation loop *)

Evaluating == pc \notin {"start", "ready", "idle"}

\* The tiles (1-based positions) whose processing fails.
FailingTiles ==
    {i \in 1 .. Len(holdout_lbls) : Len(lbls[i]) # 4 \/ Len(preds[i]) # 4}

LoopFinished ==
    pc \in {"timed", "cleaned", "done"} \/ (pc = "aborted" /\ error.kind = "UnboundLocalError")

\* The display names of the detections of heatmap h under the loop's parameters.
NamesOf(h) == classes2name(Decode(h, score_thresh, min_area, conn), classes)

\* C1: when no tile fails, the loop leaves exactly one row per tile, and the
\* row at position i is the row of the tile at position i, ending in that
\* tile's file name: no tile is skipped, duplicated or reordered.
C1_RowsFollowTiles ==
    (Evaluating /\ FailingTiles = {}) =>
        /\ Len(ho_results) <= Len(holdout_lbls)
        /\ LoopFinished => Len(ho_results) = Len(holdout_lbls)
        /\ \A i \in 1 .. Len(ho_results) :
              /\ ho_results[i] = NamesOf(lbls[i]) \o NamesOf(preds[i])
                                    \o <<holdout_lbls[i]["External ID"]>>
              /\ ho_results[i][Len(ho_results[i])] = holdout_lbls[i]["External ID"]

\* C1 witness: a finished loop over two tiles that gave two different rows.
C1_Witness ==
    /\ pc = "timed"
    /\ FailingTiles = {}
    /\ Len(ho_results) = 2
    /\ ho_results[1] # ho_results[2]

FirstFailing == CHOOSE i \in FailingTiles : \A j \in FailingTiles : i <= j

\* C4: once the loop has reached the first failing tile k, the run is over:
\* the rows are those of the tiles before k only, the pass has not completed
\* (no cleanup, no timing line) and no step follows, so the rows collected
\* before k go nowhere.
C4_FailureAbortsPass ==
    (Evaluating /\ FailingTiles # {} /\ idx + 1 >= FirstFailing) =>
        /\ idx + 1 = FirstFailing
        /\ pc = "aborted"
        /\ Len(ho_results) = FirstFailing - 1
        /\ ~cleaned
        /\ logged = NoLog
        /\ ~ENABLED Next

\* C4 witness: the second tile failed after the first had given a row.
C4_Witness ==
    /\ pc = "aborted"
    /\ error.kind = "ShapeMismatchError"
    /\ idx = 1
    /\ Len(ho_results) = 1

\* C5: in every run that a tile's failure ended, the error names the file of
\* the tile whose processing failed.
C5_ErrorNamesTile ==
    (pc = "aborted" /\ error.kind = "ShapeMismatchError") =>
        error.fname = holdout_lbls[idx + 1]["External ID"]

C10_PassCompletes ==
    (Evaluating /\ FailingTiles = {}) =>
        /\ pc # "aborted"
        /\ pc = "done" =>
              /\ cleaned
              /\ logged = Len(holdout_lbls)
              /\ logged = Len(ho_results)

-----------------------------------------------------------------------------
(* Properties of the class registry *)

\* The canonical tuple of a registry value: (displayName, color, expectedRadiusFraction)
Canonical(v) == <<v[2], v[3], v[4]>>

\* C6: raw labels with the same canonical tuple have the same index
\* (Macrophage and Monocyte: index 2, 'Macro+Mono'), classes with the same
\* index are the same class, and the class list has exactly 4 members, which
\* is the number of output channels.
C6_IndexPerCanonicalTuple ==
    pc \notin {"start", "idle"} =>
        /\ \A a, b \in RawLabels :
              Canonical(class_map[a]) = Canonical(class_map[b])
                 => class_map[a][1] = class_map[b][1]
        /\ class_map["Macrophage"][1] = 2
        /\ class_map["Monocyte"][1] = 2
        /\ class_map["Macrophage"][2] = "Macro+Mono"
        /\ class_map["Monocyte"][2] = "Macro+Mono"
        /\ \A i, j \in 1 .. Len(classes) :
              classes[i][1] = classes[j][1] => i = j
        /\ {classes[i] : i \in 1 .. Len(classes)} = {class_map[l] : l \in RawLabels}
        /\ Len(classes) = 4
        /\ dls_c = 4

\* C6 witness: the registry is built and holds two synonyms.
C6_Witness ==
    /\ pc = "ready"
    /\ \E a, b \in RawLabels : a # b /\ class_map[a] = class_map[b]
    /\ \E i \in 1 .. Len(classes) : classes[i] = class_map["Monocyte"]

\* C9: the class at list position i has index i (0-based), so the name found
\* at the list position of a channel index is the display name of the class
\* registered under that index.
C9_PositionIsIndex ==
    pc \notin {"start", "idle"} =>
        /\ \A i \in 1 .. Len(classes) : classes[i][1] = i - 1
        /\ \A l \in RawLabels :
              LET d == [classIndex |-> class_map[l][1]]
              IN  classes2name(<<d>>, classes) = <<class_map[l][2]>>

\* C9 witness: a row holding a name that was looked up by channel index.
C9_Witness ==
    /\ Len(ho_results) >= 1
    /\ Len(ho_results[1]) >= 2
    /\ ho_results[1][1] = "Macro+Mono"

-----------------------------------------------------------------------------
(* Properties of the decoder *)

Decoded == dpc \in {"decoded", "raised"}

\* The number of detections of channel index k in the list ds.
CountClass(ds, k) == Cardinality({i \in 1 .. Len(ds) : ds[i].classIndex = k})

ChannelIndices == 0 .. Len(hm) - 1

\* The pixels of channel index k at or above threshold t.
PixelsAtLeast(k, t) ==
    LET ch == hm[k + 1]
    IN  {p \in (1 .. Len(ch)) \X (1 .. Len(ch[1])) : ch[p[1]][p[2]] >= t}

Touch(p, q) ==
    IF conn = 4
    THEN (p[1] = q[1] /\ (p[2] - q[2]) \in {-1, 1}) \/ (p[2] = q[2] /\ (p[1] - q[1]) \in {-1, 1})
    ELSE p # q /\ (p[1] - q[1]) \in {-1, 0, 1} /\ (p[2] - q[2]) \in {-1, 0, 1}

\* No pixel of A outside S touches a pixel of S.
ClosedIn(S, A) == \A p \in S : \A q \in A \ S : ~Touch(p, q)

\* The maximal connected regions of A: the minimal non-empty subsets of A that
\* no other pixel of A touches.
MaximalRegions(A) ==
    {R \in SUBSET A \ {{}} :
        /\ ClosedIn(R, A)
        /\ \A S \in SUBSET R \ {{}, R} : ~ClosedIn(S, R)}

\* C2: the second call, at a raised threshold, returns for every channel at
\* most as many detections as the first call did.
C2_CountNeverRises ==
    dpc = "raised" =>
        \A k \in ChannelIndices : CountClass(dets, k) <= CountClass(lowDets, k)

\* C2 as amended: at a raised threshold the active pixels are a subset of
\* those before, every region that yields a detection lies inside a region
\* that yielded one before, and a channel without detections before has none.
C2_RegionsOnlyShrink ==
    dpc = "raised" =>
        /\ lowThr <= thr
        /\ \A k \in ChannelIndices :
              /\ PixelsAtLeast(k, thr) \subseteq PixelsAtLeast(k, lowThr)
              /\ \A i \in 1 .. Len(regs[k + 1]) :
                    Cardinality(regs[k + 1][i]) >= minA =>
                       \E j \in 1 .. Len(lowRegs[k + 1]) :
                          /\ regs[k + 1][i] \subseteq lowRegs[k + 1][j]
                          /\ Cardinality(lowRegs[k + 1][j]) >= minA
              /\ CountClass(dets, k) =
                    Cardinality({i \in 1 .. Len(regs[k + 1]) : Cardinality(regs[k + 1][i]) >= minA})
              /\ CountClass(lowDets, k) = 0 => CountClass(dets, k) = 0

\* C2 witness: a region of the first call split in two by the raised threshold.
C2_Witness ==
    /\ dpc = "raised"
    /\ \E k \in ChannelIndices :
          /\ CountClass(lowDets, k) = 1
          /\ CountClass(dets, k) = 2

AllZero(ch) == \A y \in 1 .. Len(ch) : \A x \in 1 .. Len(ch[y]) : ch[y][x] = 0

HasDetection(k, R) ==
    \E i \in 1 .. Len(dets) :
        /\ dets[i].classIndex = k
        /\ dets[i].x[2] = Cardinality(R)
        /\ dets[i].y[2] = Cardinality(R)
        /\ \E p \in R : hm[k + 1][p[1]][p[2]] = dets[i].confidence
        /\ \A p \in R : hm[k + 1][p[1]][p[2]] <= dets[i].confidence

\* C8: for every channel the detections are, one each, those of the maximal
\* connected regions of active pixels with at least minAreaPixels pixels,
\* under the channel's index; the 4x4 scenario at threshold 0.5 gives one
\* detection (classIndex 1) with minAreaPixels 4 and none with 5.
C8_OneDetectionPerLargeRegion ==
    Decoded =>
        /\ \A i \in 1 .. Len(dets) : dets[i].classIndex \in ChannelIndices
        /\ \A k \in ChannelIndices :
              LET large == {R \in MaximalRegions(PixelsAtLeast(k, thr)) : ~(Cardinality(R) < minA)}
              IN  /\ CountClass(dets, k) = Cardinality(large)
                  /\ \A R \in large : HasDetection(k, R)
        /\ (hm \in ScenarioHeatmaps /\ thr = 5 /\ minA = 4) =>
              /\ Len(dets) = 1
              /\ dets[1].classIndex = 1
              /\ dets[1].confidence = 9
        /\ (hm \in ScenarioHeatmaps /\ thr = 5 /\ minA = 5) => dets = <<>>

\* C8 witness: the scenario heatmap decoded at 0.5 with minAreaPixels 4.
C8_Witness ==
    /\ Decoded
    /\ hm \in ScenarioHeatmaps
    /\ thr = 5
    /\ minA = 4
    /\ Len(dets) = 1

=============================================================================
